---- MODULE Spec2Model ----
(***************************************************************************)
(* Model of the visitor-tracker server.  The repository holds three        *)
(* variants of the same Express/SQLite server:                             *)
(*   "analytics-server.js"  src/analytics-server.js                        *)
(*   "part_000"             src/unnamed/part_000                           *)
(*   "dashboard.html"       the server source that follows </html> in      *)
(*                          src/public/dashboard.html                      *)
(* One of them is the running program; `variant` says which.  The model    *)
(* starts with the server listening and the visits table created: it       *)
(* takes the route handlers of each source as they are written and leaves  *)
(* out the loading of the module.  A request handler runs to completion    *)
(* (Node runs one callback at a time); the statement it hands to sqlite3   *)
(* completes later, in a step of its own, and statements that are pending  *)
(* together complete in any order.                                         *)
(*                                                                         *)
(* JS objects are functions from the keys that are present to values; a    *)
(* key that is not in the DOMAIN is `undefined`.  String-valued lookups    *)
(* that may be undefined (headers) use the value ABSENT.                   *)
(***************************************************************************)
EXTENDS Integers, Sequences, FiniteSets, TLC

VARIABLES variant, visits, seq, pending, reqs

vars == <<variant, visits, seq, pending, reqs>>

(* ------------------------------ bounds -------------------------------- *)

\* number of HTTP requests a behaviour receives
MaxRequests == 3

\* number of requests in a behaviour that ranges over a large set of samples
\* (every user agent, every combination of address headers)
MaxSampledRequests == 2

(* ----------------------------- JS values ------------------------------ *)

ABSENT == "<undefined>"
NULL == "<null>"

Variants == {"analytics-server.js", "part_000", "dashboard.html"}

EmptyObject == <<>>

Has(obj, k) == k \in DOMAIN obj

\* obj[k] = v, adding the key when it is missing
Put(obj, k, v) == (k :> v) @@ obj

\* JS truthiness of a string-valued (or undefined) expression
Truthy(v) == v \notin {ABSENT, NULL, ""}

\* a || b
Or(a, b) == IF Truthy(a) THEN a ELSE b

\* data.k || dflt, for a string field
StrOr(data, k, dflt) == IF Has(data, k) /\ Truthy(data[k]) THEN data[k] ELSE dflt

\* data.k as sqlite3 binds it: undefined is bound as NULL
Field(data, k) == IF Has(data, k) THEN data[k] ELSE NULL

\* data.k || 0, for a numeric field
NumOr(data, k) == IF Has(data, k) /\ data[k] # 0 THEN data[k] ELSE 0

(* --------------------------- enrichment ------------------------------- *)

\* What the sample user-agent strings contain, for the regular expressions
\* of detectDeviceType (case-insensitive substring tests).
UATokens(ua) ==
  CASE ua = "Mozilla/5.0 (iPhone; CPU iPhone OS 17_0 like Mac OS X)" -> {"iPhone"}
    [] ua = "Mozilla/5.0 (Linux; Android 14; Pixel 8)" -> {"Android", "Linux"}
    [] ua = "Mozilla/5.0 (Macintosh; Intel Mac OS X 10_15_7)" -> {"Macintosh"}
    [] ua = "Mozilla/5.0 (Windows NT 10.0; Win64; x64)" -> {"Windows NT"}
    [] ua = "Mozilla/5.0 (X11; Linux x86_64)" -> {"Linux"}
    [] ua = "Mozilla/5.0 (X11; CrOS x86_64) Chromebook" -> {"Chromebook"}
    [] ua = "MacIntel" -> {"MacIntel"}
    [] OTHER -> {}

MobileTokens ==
  {"Android", "webOS", "iPhone", "iPad", "iPod", "BlackBerry", "IEMobile", "Opera Mini"}

\* the tests in another order: the desktop patterns before the mobile one
detectDeviceTypeDesktopFirst(userAgent) ==
  IF ~Truthy(userAgent) THEN "Unknown"
  ELSE IF UATokens(userAgent) \cap {"Macintosh", "MacIntel"} # {} THEN "Desktop"
  ELSE IF "Windows NT" \in UATokens(userAgent) THEN "Desktop"
  ELSE IF "Linux" \in UATokens(userAgent) THEN "Desktop"
  ELSE IF UATokens(userAgent) \cap MobileTokens # {} THEN "Mobile"
  ELSE IF "Chromebook" \in UATokens(userAgent) THEN "Laptop"
  ELSE "Unknown"

detectDeviceType(userAgent) ==
  IF ~Truthy(userAgent) THEN "Unknown"
  ELSE IF UATokens(userAgent) \cap MobileTokens # {} THEN "Mobile"
  ELSE IF UATokens(userAgent) \cap {"Macintosh", "MacIntel"} # {} THEN "Desktop"
  ELSE IF "Windows NT" \in UATokens(userAgent) THEN "Desktop"
  ELSE IF "Linux" \in UATokens(userAgent) THEN "Desktop"
  ELSE IF "Chromebook" \in UATokens(userAgent) THEN "Laptop"
  ELSE "Unknown"

\* geoip.lookup against the local dataset: a record, or null on a miss
GeoLookup(ip) ==
  CASE ip = "1.1.1.1" -> [hit |-> TRUE, country |-> "AU", city |-> "Sydney"]
    [] ip = "2.2.2.2" -> [hit |-> TRUE, country |-> "FR", city |-> ""]
    [] OTHER -> [hit |-> FALSE, country |-> "", city |-> ""]

\* the address on which geoip.lookup is taken to fail with an exception
GeoLookupThrows(ip) == ip = "unknown"

\* ip.startsWith('127.0.0.1')
StartsWithLoopback(ip) == ip \in {"127.0.0.1", "127.0.0.1:8080"}

Unknown == [country |-> "Unknown", city |-> "Unknown"]

\* part_000: lookup skipped for an empty or loopback address
GeoGuarded(ipAddress) ==
  IF Truthy(ipAddress) /\ ipAddress # "::1" /\ ~StartsWithLoopback(ipAddress)
  THEN LET geoData == GeoLookup(ipAddress)
       IN  IF ~GeoLookupThrows(ipAddress) /\ geoData.hit
           THEN [country |-> Or(geoData.country, "Unknown"),
                 city |-> Or(geoData.city, "Unknown")]
           ELSE Unknown
  ELSE Unknown

\* dashboard.html: geoip.lookup(data.ip_address || '') with optional chaining
GeoUnguarded(ipAddress) ==
  LET geoData == GeoLookup(Or(ipAddress, ""))
  IN  IF geoData.hit
      THEN [country |-> Or(geoData.country, "Unknown"),
            city |-> Or(geoData.city, "Unknown")]
      ELSE Unknown

\* the addresses safeInsertVisit passes to geoip.lookup
GeoLookups(v, ipAddress) ==
  CASE v = "part_000" ->
         IF Truthy(ipAddress) /\ ipAddress # "::1" /\ ~StartsWithLoopback(ipAddress)
         THEN {ipAddress} ELSE {}
    [] v = "dashboard.html" -> {Or(ipAddress, "")}
    [] OTHER -> {}

\* header?.split(',')[0], the header given as the list of its comma-separated
\* entries; <<>> is a header that was not sent
FirstEntry(header) == IF header = <<>> THEN ABSENT ELSE header[1]

Language(req) == Or(FirstEntry(req.headers.acceptLanguage), "Unknown")

\* the sources tried in another order: x-real-ip before x-forwarded-for
ClientIpRealFirst(req) ==
  Or(req.headers.xreal, Or(FirstEntry(req.headers.xff), Or(req.remoteAddress, req.ip)))

\* x-forwarded-for first entry || x-real-ip || remoteAddress || req.ip
ClientIp(req) ==
  Or(FirstEntry(req.headers.xff), Or(req.headers.xreal, Or(req.remoteAddress, req.ip)))

(* ------------------------------ time ---------------------------------- *)

\* new Date().toISOString() while the n-th request is handled
ServerTimes ==
  <<"2026-11-04T10:00:01.000Z", "2026-11-04T10:00:02.000Z", "2026-11-04T10:00:03.000Z",
    "2026-11-04T10:00:04.000Z", "2026-11-04T10:00:05.000Z", "2026-11-04T10:00:06.000Z">>

Now(n) == ServerTimes[n]

\* SQLite's CURRENT_TIMESTAMP after n requests have arrived
CurrentTimestamp(n) ==
  <<"2026-11-04 10:00:01", "2026-11-04 10:00:02", "2026-11-04 10:00:03",
    "2026-11-04 10:00:04", "2026-11-04 10:00:05", "2026-11-04 10:00:06">>[n]

\* the timestamps of the model in SQLite's TEXT (bytewise) order
TimestampOrder ==
  <<"2024-01-01T00:00:00Z", "2024-01-02T00:00:00Z">> \o ServerTimes

TextRank(ts) == CHOOSE i \in 1..Len(TimestampOrder) : TimestampOrder[i] = ts

(* ------------------------- safeInsertVisit ---------------------------- *)

\* the validation with && written for ||
MissingRequiredBoth(data) ==
  ~(Has(data, "visitor_id") /\ Truthy(data.visitor_id))
    /\ ~(Has(data, "timestamp") /\ Truthy(data.timestamp))

\* !data.visitor_id || !data.timestamp
MissingRequired(data) ==
  ~(Has(data, "visitor_id") /\ Truthy(data.visitor_id))
    \/ ~(Has(data, "timestamp") /\ Truthy(data.timestamp))

\* the values analytics-server.js binds to its INSERT (11 columns)
BaseParams(data) ==
  [visitor_id |-> Field(data, "visitor_id"),
   timestamp |-> Field(data, "timestamp"),
   url |-> StrOr(data, "url", ""),
   path |-> StrOr(data, "path", ""),
   referrer |-> StrOr(data, "referrer", ""),
   user_agent |-> StrOr(data, "user_agent", ""),
   screen_width |-> NumOr(data, "screen_width"),
   screen_height |-> NumOr(data, "screen_height"),
   ip_address |-> StrOr(data, "ip_address", ""),
   event_type |-> StrOr(data, "event_type", "page_view"),
   duration |-> NumOr(data, "duration")]

\* the values part_000 binds to its INSERT (15 columns)
EnrichedParams(data, req) ==
  LET geo == GeoGuarded(StrOr(data, "ip_address", ABSENT))
      extra == [country |-> geo.country,
                city |-> geo.city,
                device_type |-> detectDeviceType(StrOr(data, "user_agent", ABSENT)),
                language |-> Language(req)]
  IN  BaseParams(data) @@ extra

\* safeInsertVisit up to the call of db.run: the validation rejects the data,
\* or the function throws, or it hands one INSERT to the database.
\* dashboard.html reads req.headers where no req is in scope: a ReferenceError
\* once the validation has passed.
safeInsertVisit(v, data, req) ==
  LET lookups == GeoLookups(v, StrOr(data, "ip_address", ABSENT))
  IN  IF MissingRequired(data) THEN [kind |-> "rejected", lookups |-> {}]
      ELSE IF v = "analytics-server.js"
      THEN [kind |-> "run", params |-> BaseParams(data), lookups |-> lookups]
      ELSE IF v = "part_000"
      THEN [kind |-> "run", params |-> EnrichedParams(data, req), lookups |-> lookups]
      ELSE [kind |-> "throws", lookups |-> lookups]

(* ----------------------------- responses ------------------------------ *)

GIF == "R0lGODlhAQABAIAAAAAAAP///yH5BAEAAAAALAAAAAABAAEAAAIBRAA7"

NoCache == {"Cache-Control", "Pragma", "Expires"}

JsonError(code, msg) == [status |-> code, type |-> "json", error |-> msg]

JsonSaved(id) == [status |-> 200, type |-> "json", success |-> TRUE, id |-> id]

\* res.set({...no-cache...}).send(gif)
GifNoCache == [status |-> 200, type |-> "image/gif", body |-> GIF, headers |-> NoCache]

\* res.set('Content-Type', 'image/gif'); res.send(gif) of the catch blocks
GifPlain == [status |-> 200, type |-> "image/gif", body |-> GIF, headers |-> {}]

\* Express's own handler for an exception that leaves a route handler
ExpressError == [status |-> 500, type |-> "text/html", error |-> "Internal Server Error"]

(* ------------------------- parsing of inputs -------------------------- *)

T1 == "2024-01-01T00:00:00Z"
T2 == "2024-01-02T00:00:00Z"

\* JSON.parse(decodeURIComponent(text)) on the sample values of the `data`
\* query parameter: the parsed value, or an exception (URIError, SyntaxError)
ParseData(text) ==
  CASE text = "{}" -> [kind |-> "object", obj |-> EmptyObject]
    [] text = "{\"visitor_id\":\"v1\",\"timestamp\":\"2024-01-01T00:00:00Z\"}" ->
         [kind |-> "object", obj |-> [visitor_id |-> "v1", timestamp |-> T1]]
    [] text = "{\"visitor_id\":\"v1\",\"timestamp\":\"2024-01-01T00:00:00Z\",\"ip_address\":\"6.6.6.6\"}" ->
         [kind |-> "object",
          obj |-> [visitor_id |-> "v1", timestamp |-> T1, ip_address |-> "6.6.6.6"]]
    [] text = "{\"visitor_id\":\"v2\",\"timestamp\":\"2024-01-02T00:00:00Z\"}" ->
         [kind |-> "object", obj |-> [visitor_id |-> "v2", timestamp |-> T2]]
    [] text = "null" -> [kind |-> "null", obj |-> EmptyObject]
    [] text = "5" -> [kind |-> "primitive", obj |-> EmptyObject]
    [] OTHER -> [kind |-> "throws", obj |-> EmptyObject]

\* decodeURIComponent on the sample values of the `url` query parameter
DecodeURIComponent(text) ==
  CASE text = "" -> [ok |-> TRUE, value |-> ""]
    [] text = "https%3A%2F%2Fshop.example%2F" -> [ok |-> TRUE, value |-> "https://shop.example/"]
    [] text = "https://shop.example/" -> [ok |-> TRUE, value |-> "https://shop.example/"]
    [] OTHER -> [ok |-> FALSE, value |-> ""]

\* parseInt(text) || 0
ParseIntOr0(query, k) ==
  IF ~Has(query, k) THEN 0
  ELSE CASE query[k] = "390" -> 390
         [] query[k] = "844px" -> 844
         [] OTHER -> 0

(* ----------------------------- handlers ------------------------------- *)
\* A handler's synchronous part, as the responses it sends and what it hands
\* to the database: [responses, db], db.kind in {"none", "rejected", "throws",
\* "run", "all", "get"}.

NoDb == [kind |-> "none", lookups |-> {}]

\* visitData.ip_address = ... on the value the pixel handler parsed: a
\* TypeError on null, ignored on a primitive, an assignment on an object
AssignIp(parsed, ip) ==
  CASE parsed.kind = "object" -> [kind |-> "object", obj |-> Put(parsed.obj, "ip_address", ip)]
    [] OTHER -> parsed

\* the handler keeping an ip_address the body brings
PostTrackHandlerTrustingBody(v, req) ==
  LET visitData == Put(req.body, "ip_address", StrOr(req.body, "ip_address", ClientIp(req)))
      o == safeInsertVisit(v, visitData, req)
  IN  CASE o.kind = "rejected" ->
             [responses |-> <<JsonError(400, "Missing required fields")>>, db |-> o]
        [] o.kind = "throws" ->
             [responses |-> <<JsonError(500, "Server error processing request")>>, db |-> o]
        [] OTHER -> [responses |-> <<>>, db |-> o]

PostTrackHandler(v, req) ==
  LET visitData == Put(req.body, "ip_address", ClientIp(req))
      o == safeInsertVisit(v, visitData, req)
  IN  CASE o.kind = "rejected" ->
             [responses |-> <<JsonError(400, "Missing required fields")>>, db |-> o]
        [] o.kind = "throws" ->
             [responses |-> <<JsonError(500, "Server error processing request")>>, db |-> o]
        [] OTHER -> [responses |-> <<>>, db |-> o]

\* JSON.parse(decodeURIComponent(req.query.data || '{}')), raw query on a throw
\* (analytics-server.js, dashboard.html)
PixelDataOrEmpty(req) ==
  LET parsed == ParseData(StrOr(req.query, "data", "{}"))
  IN  IF parsed.kind = "throws" THEN [kind |-> "object", obj |-> req.query] ELSE parsed

\* part_000: the data parameter when it is truthy, the raw query otherwise
\* and on a throw
PixelDataOrQuery(req) ==
  IF Has(req.query, "data") /\ Truthy(req.query.data)
  THEN LET parsed == ParseData(req.query.data)
       IN  IF parsed.kind = "throws" THEN [kind |-> "object", obj |-> req.query] ELSE parsed
  ELSE [kind |-> "object", obj |-> req.query]

TrackPixelHandler(v, req) ==
  LET parsed == IF v = "part_000" THEN PixelDataOrQuery(req) ELSE PixelDataOrEmpty(req)
      visitData == AssignIp(parsed, ClientIp(req))
      o == safeInsertVisit(v, visitData.obj, req)
  IN  IF parsed.kind = "null"
      THEN \* TypeError: inside the try of analytics-server.js only
           IF v = "analytics-server.js"
           THEN [responses |-> <<GifPlain>>, db |-> NoDb]
           ELSE [responses |-> <<ExpressError>>, db |-> NoDb]
      ELSE IF o.kind = "throws"
           THEN [responses |-> <<ExpressError>>, db |-> o]
           ELSE [responses |-> <<GifNoCache>>, db |-> o]

\* the handler letting the query set the timestamp and the event type
IosTrackHandlerTrustingQuery(v, req, n) ==
  LET url == DecodeURIComponent(StrOr(req.query, "url", ""))
      visitData ==
        [visitor_id |-> StrOr(req.query, "vid", "ios-unknown"),
         timestamp |-> StrOr(req.query, "timestamp", Now(n)),
         url |-> url.value,
         path |-> "",
         referrer |-> Or(req.headers.referer, ""),
         user_agent |-> Or(req.headers.userAgent, ""),
         screen_width |-> ParseIntOr0(req.query, "w"),
         screen_height |-> ParseIntOr0(req.query, "h"),
         ip_address |-> ClientIp(req),
         event_type |-> StrOr(req.query, "event_type", "ios_visit")]
  IN  IF ~url.ok
      THEN [responses |-> <<GifPlain>>, db |-> NoDb]
      ELSE [responses |-> <<GifNoCache>>, db |-> safeInsertVisit(v, visitData, req)]

\* analytics-server.js only
IosTrackHandler(v, req, n) ==
  LET url == DecodeURIComponent(StrOr(req.query, "url", ""))
      visitData ==
        [visitor_id |-> StrOr(req.query, "vid", "ios-unknown"),
         timestamp |-> Now(n),
         url |-> url.value,
         path |-> "",
         referrer |-> Or(req.headers.referer, ""),
         user_agent |-> Or(req.headers.userAgent, ""),
         screen_width |-> ParseIntOr0(req.query, "w"),
         screen_height |-> ParseIntOr0(req.query, "h"),
         ip_address |-> ClientIp(req),
         event_type |-> "ios_visit"]
  IN  IF ~url.ok
      THEN [responses |-> <<GifPlain>>, db |-> NoDb]
      ELSE [responses |-> <<GifNoCache>>, db |-> safeInsertVisit(v, visitData, req)]

\* the gate with its commented-out return in force
AnalyticsHandlerEnforcing(v, req) ==
  IF v = "analytics-server.js" /\ req.headers.authorization # "Bearer your-secret-token"
  THEN [responses |-> <<JsonError(401, "Unauthorized")>>, db |-> NoDb]
  ELSE [responses |-> <<>>, db |-> [kind |-> "all", lookups |-> {}]]

\* analytics-server.js checks the bearer token, warns and goes on; part_000
\* does not look at it.  Both hand one SELECT to the database.
AnalyticsHandler(v, req) == [responses |-> <<>>, db |-> [kind |-> "all", lookups |-> {}]]

\* /api/health of analytics-server.js answers at once; /health of part_000
\* asks the database first
HealthHandler(v, req) ==
  IF v = "analytics-server.js"
  THEN [responses |-> <<[status |-> 200, type |-> "json", health |-> "ok"]>>, db |-> NoDb]
  ELSE [responses |-> <<>>, db |-> [kind |-> "get", lookups |-> {}]]

(* ----------------------------- database ------------------------------- *)

AnalyticsLimit == 1000

\* id INTEGER PRIMARY KEY AUTOINCREMENT
NextRowId(last) == last + 1

\* the row an INSERT stores: the bound values, the assigned id and the
\* column defaults (country stays NULL where the statement does not name it)
StoredRow(params, id, n) ==
  params @@ [id |-> id, country |-> NULL, created_at |-> CurrentTimestamp(n), processed |-> 0]

\* visitor_id TEXT NOT NULL, timestamp TEXT NOT NULL
NotNullViolated(params) == params.visitor_id = NULL \/ params.timestamp = NULL

\* an INSERT OR REPLACE that lands on the newest row
InsertRowReplacing(table, row) ==
  IF table = <<>> THEN <<row>> ELSE [table EXCEPT ![Len(table)] = row]

\* INSERT INTO visits
InsertRow(table, row) == Append(table, row)

\* the sort key of the SELECT's ORDER BY ... DESC
OrderKey(v, row) == IF v = "analytics-server.js" THEN TextRank(row.timestamp) ELSE row.id

\* the orders in which ORDER BY key DESC may return the rows of the table:
\* rows with equal keys come in an order SQLite does not fix
DescOrders(v, table) ==
  LET n == Len(table)
  IN  {p \in [1..n -> 1..n] :
         /\ \A i, j \in 1..n : i # j => p[i] # p[j]
         /\ \A i, j \in 1..n : i < j => OrderKey(v, table[p[i]]) >= OrderKey(v, table[p[j]])}

Min(a, b) == IF a < b THEN a ELSE b

RECURSIVE Arrange(_, _, _)
\* the rows table[p[1]], ..., table[p[n]]
Arrange(table, p, n) ==
  IF n = 0 THEN <<>> ELSE Append(Arrange(table, p, n - 1), table[p[n]])

\* the SELECT answered from a copy of the table taken before the last insert
SelectVisitsStale(v, table) ==
  LET copy == IF table = <<>> THEN <<>> ELSE SubSeq(table, 1, Len(table) - 1)
  IN  {Arrange(copy, p, Min(Len(copy), AnalyticsLimit)) : p \in DescOrders(v, copy)}

\* SELECT * FROM visits ORDER BY ... DESC LIMIT 1000
SelectVisits(v, table) ==
  {Arrange(table, p, Min(Len(table), AnalyticsLimit)) : p \in DescOrders(v, table)}

(* ------------------------------ state --------------------------------- *)
\* variant  which of the three server sources runs
\* visits   the visits table, in insertion order
\* seq      the last id AUTOINCREMENT assigned
\* pending  the statements handed to sqlite3 whose callback has not run
\* reqs     the requests received, each with the responses sent for it and
\*          the addresses its handler passed to geoip.lookup

Init ==
  /\ variant \in Variants
  /\ visits = <<>>
  /\ seq = 0
  /\ pending = {}
  /\ reqs = <<>>

\* a request arrives and its handler runs up to its return
Arrive(endpoint, req, respond, h) ==
  LET rid == Len(reqs) + 1
      queued == h.db.kind \in {"run", "all", "get"}
      entry == [endpoint |-> endpoint, req |-> req, at |-> rid,
                responses |-> h.responses,
                db |-> IF queued THEN "pending" ELSE h.db.kind,
                lookups |-> h.db.lookups,
                rowId |-> 0]
      op == [rid |-> rid, op |-> h.db.kind, respond |-> respond,
             params |-> IF h.db.kind = "run" THEN h.db.params ELSE EmptyObject]
  IN  /\ Len(reqs) < MaxRequests
      /\ reqs' = Append(reqs, entry)
      /\ pending' = IF queued THEN pending \cup {op} ELSE pending
      /\ UNCHANGED <<variant, visits, seq>>

PostTrack(req) == Arrive("POST /api/track", req, TRUE, PostTrackHandler(variant, req))

TrackPixel(req) == Arrive("GET /api/track-pixel", req, FALSE, TrackPixelHandler(variant, req))

IosTrack(req) ==
  /\ variant = "analytics-server.js"
  /\ Arrive("GET /api/ios-track", req, FALSE, IosTrackHandler(variant, req, Len(reqs) + 1))

Analytics(req) ==
  /\ variant \in {"analytics-server.js", "part_000"}
  /\ Arrive("GET /api/analytics", req, TRUE, AnalyticsHandler(variant, req))

Health(req) ==
  /\ variant \in {"analytics-server.js", "part_000"}
  /\ Arrive("GET /health", req, TRUE, HealthHandler(variant, req))

\* the log entry of request rid after the callback of its statement ran
Answered(rid, outcome, id, responses) ==
  [reqs EXCEPT ![rid].db = outcome,
               ![rid].rowId = id,
               ![rid].responses = reqs[rid].responses \o responses]

\* the callback without the return that ends its error branch
RunCallbackFallingThrough(op, err, lastID) ==
  IF err
  THEN Answered(op.rid, "failed", 0,
                IF op.respond
                THEN <<JsonError(500, "Failed to save visit data"), JsonSaved(lastID)>>
                ELSE <<>>)
  ELSE Answered(op.rid, "saved", lastID,
                IF op.respond THEN <<JsonSaved(lastID)>> ELSE <<>>)

\* the callback acknowledging the number of the request, not this.lastID
RunCallbackByArrival(op, err, lastID) ==
  IF err
  THEN Answered(op.rid, "failed", 0,
                IF op.respond THEN <<JsonError(500, "Failed to save visit data")>> ELSE <<>>)
  ELSE Answered(op.rid, "saved", lastID,
                IF op.respond THEN <<JsonSaved(op.rid)>> ELSE <<>>)

\* callback of db.run(INSERT ...): function (err) { ... this.lastID ... }
RunCallback(op, err, lastID) ==
  IF err
  THEN Answered(op.rid, "failed", 0,
                IF op.respond THEN <<JsonError(500, "Failed to save visit data")>> ELSE <<>>)
  ELSE Answered(op.rid, "saved", lastID,
                IF op.respond THEN <<JsonSaved(lastID)>> ELSE <<>>)

\* an INSERT that is handed to the database again when it failed
DbRunRetrying(op, err) ==
  /\ op \in pending
  /\ op.op = "run"
  /\ NotNullViolated(op.params) => err
  /\ pending' = IF err THEN pending ELSE pending \ {op}
  /\ IF err
     THEN UNCHANGED <<visits, seq>>
     ELSE /\ seq' = NextRowId(seq)
          /\ visits' = InsertRow(visits, StoredRow(op.params, NextRowId(seq), Len(reqs)))
  /\ reqs' = RunCallback(op, err, NextRowId(seq))
  /\ UNCHANGED variant

\* sqlite3 executes a pending INSERT and calls back
DbRun(op, err) ==
  /\ op \in pending
  /\ op.op = "run"
  /\ NotNullViolated(op.params) => err
  /\ pending' = pending \ {op}
  /\ IF err
     THEN UNCHANGED <<visits, seq>>
     ELSE /\ seq' = NextRowId(seq)
          /\ visits' = InsertRow(visits, StoredRow(op.params, NextRowId(seq), Len(reqs)))
  /\ reqs' = RunCallback(op, err, NextRowId(seq))
  /\ UNCHANGED variant

\* sqlite3 executes a pending SELECT of the analytics endpoint and calls back
DbAll(op, err) ==
  /\ op \in pending
  /\ op.op = "all"
  /\ pending' = pending \ {op}
  /\ IF err
     THEN reqs' = Answered(op.rid, "failed", 0,
                           <<JsonError(500, "Failed to fetch analytics data")>>)
     ELSE \E rows \in SelectVisits(variant, visits) :
            reqs' = Answered(op.rid, "read", 0,
                             <<[status |-> 200, type |-> "json", rows |-> rows]>>)
  /\ UNCHANGED <<variant, visits, seq>>

\* the callback of the health check without its error branch
DbGetIgnoringError(op, err) ==
  /\ op \in pending
  /\ op.op = "get"
  /\ pending' = pending \ {op}
  /\ reqs' = Answered(op.rid, IF err THEN "failed" ELSE "read", 0,
                      <<[status |-> 200, type |-> "json", health |-> "ok"]>>)
  /\ UNCHANGED <<variant, visits, seq>>

\* sqlite3 executes the SELECT 1 of the health check and calls back
DbGet(op, err) ==
  /\ op \in pending
  /\ op.op = "get"
  /\ pending' = pending \ {op}
  /\ reqs' = Answered(op.rid, IF err THEN "failed" ELSE "read", 0,
                      <<[status |-> IF err THEN 500 ELSE 200, type |-> "json",
                         health |-> IF err THEN "error" ELSE "ok"]>>)
  /\ UNCHANGED <<variant, visits, seq>>

(* ------------------------------ inputs -------------------------------- *)

NoHeaders ==
  [xff |-> <<>>, xreal |-> ABSENT, acceptLanguage |-> <<>>, userAgent |-> ABSENT,
   referer |-> ABSENT, authorization |-> ABSENT]

\* a request that came through a proxy
Proxied ==
  [NoHeaders EXCEPT !.xff = <<"1.1.1.1", " 10.0.0.1">>,
                    !.acceptLanguage = <<"en-US", "en;q=0.9">>]

\* a request that came through a proxy that sets X-Real-IP only
RealIp == [NoHeaders EXCEPT !.xreal = "2.2.2.2"]

Peer == "203.0.113.7"

Request(headers, body, query) ==
  [headers |-> headers, remoteAddress |-> Peer, ip |-> Peer, body |-> body, query |-> query]

V1T1 == [visitor_id |-> "v1", timestamp |-> T1]
V2T2 == [visitor_id |-> "v2", timestamp |-> T2]
V1T1Ip == [visitor_id |-> "v1", timestamp |-> T1, ip_address |-> "6.6.6.6"]

\* bodies of POST /api/track: two complete ones, and one for each way a
\* required field can be absent or empty
Bodies ==
  {V2T2, V1T1,
   [timestamp |-> T1], [visitor_id |-> "", timestamp |-> T1],
   [visitor_id |-> "v1"], [visitor_id |-> "v1", timestamp |-> ""],
   EmptyObject}

DataV1T1 == "{\"visitor_id\":\"v1\",\"timestamp\":\"2024-01-01T00:00:00Z\"}"
DataV2T2 == "{\"visitor_id\":\"v2\",\"timestamp\":\"2024-01-02T00:00:00Z\"}"
DataV1T1Ip ==
  "{\"visitor_id\":\"v1\",\"timestamp\":\"2024-01-01T00:00:00Z\",\"ip_address\":\"6.6.6.6\"}"
Undecodable == "%E0%A4%A"

\* query strings of GET /api/track-pixel: a data blob, a blob that parses to
\* null or to a number, a blob that cannot be decoded next to raw fields, and
\* raw fields alone
PixelQueries ==
  {[data |-> DataV1T1], [data |-> "null"], [data |-> "5"],
   [data |-> Undecodable, visitor_id |-> "v2", timestamp |-> T2],
   [visitor_id |-> "v2", timestamp |-> T2]}

\* query strings of GET /api/ios-track
IosQueries ==
  {[url |-> Undecodable],
   [vid |-> "v2", url |-> "https%3A%2F%2Fshop.example%2F", w |-> "390", h |-> "844px",
    timestamp |-> T1, event_type |-> "page_view"]}

PostRequests == {Request(Proxied, b, EmptyObject) : b \in {V2T2, [timestamp |-> T1]}}
PixelRequests == {Request(Proxied, EmptyObject, q) : q \in PixelQueries}
IosRequests == {Request(Proxied, EmptyObject, q) : q \in IosQueries}
ReadRequests == {Request(NoHeaders, EmptyObject, EmptyObject)}

\* POST /api/track with every body
TrackRequests == {Request(Proxied, b, EmptyObject) : b \in Bodies}

\* the same payloads behind different proxies, with and without an
\* ip_address of the client's own
IpPostRequests ==
  {Request(Proxied, V1T1, EmptyObject), Request(Proxied, V1T1Ip, EmptyObject),
   Request(NoHeaders, V1T1Ip, EmptyObject)}
IpPixelRequests ==
  {Request(RealIp, EmptyObject, [data |-> DataV1T1]),
   Request(RealIp, EmptyObject, [data |-> DataV1T1Ip]),
   Request(RealIp, EmptyObject,
           [data |-> Undecodable, visitor_id |-> "v1", timestamp |-> T1,
            ip_address |-> "6.6.6.6"])}

\* user agents: a phone, a phone whose string also names Linux, the desktop
\* systems, a Chromebook, a platform string, an unrecognised client, and the
\* empty string
UserAgents ==
  {"Mozilla/5.0 (iPhone; CPU iPhone OS 17_0 like Mac OS X)",
   "Mozilla/5.0 (Linux; Android 14; Pixel 8)",
   "Mozilla/5.0 (Macintosh; Intel Mac OS X 10_15_7)",
   "Mozilla/5.0 (Windows NT 10.0; Win64; x64)",
   "Mozilla/5.0 (X11; Linux x86_64)",
   "Mozilla/5.0 (X11; CrOS x86_64) Chromebook",
   "MacIntel", "curl/8.4.0", ""}

\* POST /api/track with visitor_id, timestamp and a user_agent, or without one
DeviceRequests ==
  {Request(Proxied, [visitor_id |-> "v1", timestamp |-> T1, user_agent |-> ua], EmptyObject) :
     ua \in UserAgents}
    \cup {Request(Proxied, V1T1, EmptyObject)}

\* a request whose transport-level peer is `peer`
RequestFrom(peer, headers, body) ==
  [headers |-> headers, remoteAddress |-> peer, ip |-> peer, body |-> body,
   query |-> EmptyObject]

\* a proxy that does not know the client writes "unknown"
UnknownForwarded == [NoHeaders EXCEPT !.xff = <<"unknown">>]

\* POST /api/track from loopback peers, from a socket without a peer
\* address, from an address the dataset does not know, with an address the
\* lookup fails on, and from an address the dataset knows without a city
GeoRequests ==
  {RequestFrom("127.0.0.1", NoHeaders, V1T1), RequestFrom("::1", NoHeaders, V1T1),
   RequestFrom(ABSENT, NoHeaders, V1T1), RequestFrom(Peer, NoHeaders, V1T1),
   RequestFrom(Peer, UnknownForwarded, V1T1), RequestFrom(Peer, RealIp, V1T1)}

\* GET /api/analytics without an Authorization header, with a wrong token
\* and with the token the source expects
AuthRequests ==
  {Request(NoHeaders, EmptyObject, EmptyObject),
   Request([NoHeaders EXCEPT !.authorization = "Bearer guess"], EmptyObject, EmptyObject),
   Request([NoHeaders EXCEPT !.authorization = "Bearer your-secret-token"],
           EmptyObject, EmptyObject)}

\* two complete POST /api/track payloads
CompletePostRequests == {Request(Proxied, V1T1, EmptyObject), Request(Proxied, V2T2, EmptyObject)}

\* the address headers a request may carry: both, X-Forwarded-For with an
\* empty first entry, each alone, an empty one of each, none
AddressHeaders ==
  {[NoHeaders EXCEPT !.xff = <<"1.1.1.1", " 10.0.0.1">>, !.xreal = "2.2.2.2"],
   [NoHeaders EXCEPT !.xff = <<"", "9.9.9.9">>, !.xreal = "2.2.2.2"],
   [NoHeaders EXCEPT !.xff = <<"1.1.1.1", " 10.0.0.1">>],
   [NoHeaders EXCEPT !.xreal = "2.2.2.2"],
   [NoHeaders EXCEPT !.xff = <<"">>],
   [NoHeaders EXCEPT !.xreal = ""],
   NoHeaders}

PriorityPostRequests == {Request(h, V1T1, EmptyObject) : h \in AddressHeaders}
PriorityIosRequests == {Request(h, EmptyObject, [vid |-> "v2"]) : h \in AddressHeaders}

(* --------------------------- specifications --------------------------- *)

\* every endpoint, a few requests of each
Next ==
  \/ \E req \in PostRequests : PostTrack(req)
  \/ \E req \in PixelRequests : TrackPixel(req)
  \/ \E req \in IosRequests : IosTrack(req)
  \/ \E req \in ReadRequests : Analytics(req)
  \/ \E req \in ReadRequests : Health(req)
  \/ \E op \in pending, err \in BOOLEAN : DbRun(op, err)
  \/ \E op \in pending, err \in BOOLEAN : DbAll(op, err)
  \/ \E op \in pending, err \in BOOLEAN : DbGet(op, err)

Spec == Init /\ [][Next]_vars

NextTrack ==
  \/ \E req \in TrackRequests : PostTrack(req)
  \/ \E op \in pending, err \in BOOLEAN : DbRun(op, err)

SpecTrack == Init /\ [][NextTrack]_vars

NextIp ==
  \/ \E req \in IpPostRequests : PostTrack(req)
  \/ \E req \in IpPixelRequests : TrackPixel(req)
  \/ \E op \in pending, err \in BOOLEAN : DbRun(op, err)

SpecIp == Init /\ [][NextIp]_vars

\* POST /api/track with every user agent
NextDevice ==
  \/ Len(reqs) < MaxSampledRequests /\ \E req \in DeviceRequests : PostTrack(req)
  \/ \E op \in pending, err \in BOOLEAN : DbRun(op, err)

SpecDevice == Init /\ [][NextDevice]_vars

\* POST /api/track from every kind of address
NextGeo ==
  \/ \E req \in GeoRequests : PostTrack(req)
  \/ \E op \in pending, err \in BOOLEAN : DbRun(op, err)

SpecGeo == Init /\ [][NextGeo]_vars

\* writes by POST /api/track, reads by GET /api/analytics under every
\* Authorization header
NextAuth ==
  \/ \E req \in CompletePostRequests : PostTrack(req)
  \/ \E req \in AuthRequests : Analytics(req)
  \/ \E op \in pending, err \in BOOLEAN : DbRun(op, err)
  \/ \E op \in pending, err \in BOOLEAN : DbAll(op, err)

SpecAuth == Init /\ [][NextAuth]_vars

\* POST /api/track and GET /api/ios-track under every combination of
\* address headers
NextPriority ==
  \/ Len(reqs) < MaxSampledRequests /\ \E req \in PriorityPostRequests : PostTrack(req)
  \/ Len(reqs) < MaxSampledRequests /\ \E req \in PriorityIosRequests : IosTrack(req)
  \/ \E op \in pending, err \in BOOLEAN : DbRun(op, err)

SpecPriority == Init /\ [][NextPriority]_vars

(* ------------------------------ claims -------------------------------- *)

Received == 1..Len(reqs)

IsPost(i) == reqs[i].endpoint = "POST /api/track"
IsPixel(i) == reqs[i].endpoint = "GET /api/track-pixel"
IsIos(i) == reqs[i].endpoint = "GET /api/ios-track"
IsAnalytics(i) == reqs[i].endpoint = "GET /api/analytics"

\* the field is absent from the payload, or empty
AbsentOrEmpty(obj, k) == ~Has(obj, k) \/ obj[k] = ""

Complete(obj) == ~AbsentOrEmpty(obj, "visitor_id") /\ ~AbsentOrEmpty(obj, "timestamp")

\* the positions of the table that hold a row with this id
RowsWithId(id) == {k \in 1..Len(visits) : visits[k].id = id}

\* the row request i inserted
RowOf(i) == visits[CHOOSE k \in 1..Len(visits) : visits[k].id = reqs[i].rowId]

InsertAttempted(i) == reqs[i].db \in {"pending", "saved", "failed"}

Saved(i) == reqs[i].db = "saved"

\* the single response of request i is the 1x1 GIF with status 200
AnsweredWithGif(i) ==
  /\ Len(reqs[i].responses) = 1
  /\ reqs[i].responses[1].status = 200
  /\ reqs[i].responses[1].type = "image/gif"
  /\ reqs[i].responses[1].body = GIF

\* C1: a POST whose visitor_id and timestamp are both non-empty, when storage
\* does not fail, inserts exactly one row, and the ids handed out are unique
\* and increase from one insert to the next.
C1_CompletePayloadIsInserted ==
  /\ \A i \in Received :
       (IsPost(i) /\ Complete(reqs[i].req.body) /\ reqs[i].db \notin {"pending", "failed"})
         => (Saved(i) /\ Cardinality(RowsWithId(reqs[i].rowId)) = 1)
  /\ \A i, j \in Received : (i # j /\ Saved(i) /\ Saved(j)) => reqs[i].rowId # reqs[j].rowId
  /\ \A k \in 1..(Len(visits) - 1) : visits[k].id < visits[k + 1].id

\* C2: a POST whose visitor_id or timestamp is absent or empty is answered
\* with 400 and issues no insert: nothing is pending for it and the table
\* holds exactly the rows of the requests that were saved.
C2_IncompletePayloadRejected ==
  /\ \A i \in Received :
       (IsPost(i) /\ ~Complete(reqs[i].req.body))
         => /\ Len(reqs[i].responses) = 1
            /\ reqs[i].responses[1].status = 400
            /\ ~InsertAttempted(i)
            /\ reqs[i].rowId = 0
            /\ \A op \in pending : op.rid # i
  /\ Len(visits) = Cardinality({i \in Received : Saved(i)})

C2_Witness ==
  \E i, j \in Received :
    /\ i < j
    /\ Saved(i)
    /\ IsPost(j)
    /\ Has(reqs[j].req.body, "visitor_id")
    /\ reqs[j].req.body.visitor_id = "v1"
    /\ AbsentOrEmpty(reqs[j].req.body, "timestamp")
    /\ Len(reqs[j].responses) = 1
    /\ Len(visits) = 1

\* C3: every pixel and iOS request is answered with status 200 and the GIF.
C3_BeaconAlwaysAnsweredWithGif ==
  \A i \in Received : (IsPixel(i) \/ IsIos(i)) => AnsweredWithGif(i)

\* C4: the analytics endpoint returns at most 1000 records with status 200,
\* a record inserted later never after a record inserted earlier.
C4_AnalyticsNewestFirst ==
  \A i \in Received :
    (IsAnalytics(i) /\ reqs[i].db = "read")
      => LET res == reqs[i].responses[1]
         IN  /\ res.status = 200
             /\ Len(res.rows) <= AnalyticsLimit
             /\ \A a, b \in 1..Len(res.rows) : a < b => res.rows[a].id > res.rows[b].id

\* C5: no step removes or changes a row of the table; the table only grows.
C5_RowsImmutable ==
  [][/\ Len(visits') >= Len(visits)
     /\ \A k \in 1..Len(visits) : visits'[k] = visits[k]]_vars

C5_Witness ==
  /\ Len(visits) >= 2
  /\ \E i \in Received : reqs[i].endpoint \in {"GET /api/analytics", "GET /health"}
                           /\ reqs[i].db \in {"read", "none"}

\* the fields of an object other than ip_address
FieldsButIp(obj) == {<<k, obj[k]>> : k \in (DOMAIN obj) \ {"ip_address"}}

\* the raw fields of a pixel query other than the data blob and ip_address
RawButBlob(query) == {<<k, query[k]>> : k \in (DOMAIN query) \ {"ip_address", "data"}}

\* the data blob of a pixel query, parsed, without its ip_address
BlobButIp(query) ==
  IF Has(query, "data")
  THEN <<ParseData(query.data).kind, FieldsButIp(ParseData(query.data).obj)>>
  ELSE <<"none", {}>>

\* two requests of one endpoint with the same headers and peer address whose
\* payloads differ at most in the ip_address they carry
SameButIp(a, b) ==
  /\ a.endpoint = b.endpoint
  /\ a.req.headers = b.req.headers
  /\ a.req.remoteAddress = b.req.remoteAddress
  /\ FieldsButIp(a.req.body) = FieldsButIp(b.req.body)
  /\ RawButBlob(a.req.query) = RawButBlob(b.req.query)
  /\ BlobButIp(a.req.query) = BlobButIp(b.req.query)

\* a column of a row, NULL where the table of the variant has no such column
Column(row, c) == IF Has(row, c) THEN row[c] ELSE NULL

\* C6: two POST or pixel requests with the same headers and peer address that
\* differ only in the ip_address of the body or data blob persist the same
\* ip_address, country and city.
C6_ClientIpAddressIgnored ==
  \A i, j \in Received :
    (Saved(i) /\ Saved(j) /\ SameButIp(reqs[i], reqs[j]))
      => /\ RowOf(i).ip_address = RowOf(j).ip_address
         /\ Column(RowOf(i), "country") = Column(RowOf(j), "country")
         /\ Column(RowOf(i), "city") = Column(RowOf(j), "city")

C6_Witness ==
  \E i, j \in Received :
    /\ Saved(i) /\ Saved(j) /\ SameButIp(reqs[i], reqs[j])
    /\ IsPost(i)
    /\ ~Has(reqs[i].req.body, "ip_address")
    /\ Has(reqs[j].req.body, "ip_address")
    /\ RowOf(j).ip_address = "1.1.1.1"

\* C7: a POST has no response while its insert is pending and exactly one
\* once it is settled: 400 for an incomplete payload, 200 with the id of the
\* row it inserted, 500 when the insert failed or the handler threw.
C7_ExactlyOneResponse ==
  \A i \in Received :
    IsPost(i) =>
      LET r == reqs[i]
      IN  /\ r.db = "pending" =>
               (r.responses = <<>> /\ \E op \in pending : op.rid = i /\ op.respond)
          /\ r.db # "pending" =>
               /\ Len(r.responses) = 1
               /\ r.responses[1].status \in {200, 400, 500}
               /\ r.responses[1].status = 400 <=> ~Complete(r.req.body)
               /\ r.responses[1].status = 200 <=> Saved(i)
               /\ r.responses[1].status = 500 <=> r.db \in {"failed", "throws"}
               /\ Saved(i) =>
                    (r.responses[1].id = r.rowId /\ Cardinality(RowsWithId(r.rowId)) = 1)

C7_Witness ==
  \E i, j, k \in Received :
    /\ IsPost(i) /\ IsPost(j) /\ IsPost(k)
    /\ reqs[i].responses # <<>> /\ reqs[i].responses[1].status = 400
    /\ reqs[j].responses # <<>> /\ reqs[j].responses[1].status = 200
    /\ reqs[k].responses # <<>> /\ reqs[k].responses[1].status = 500

\* the raw query of a pixel request carries a non-empty visitor_id and timestamp
RawComplete(i) == Complete(reqs[i].req.query)

\* C8: a pixel request whose data parameter cannot be decoded or parsed is
\* answered with the GIF and, when the raw query carries a non-empty
\* visitor_id and timestamp, attempts an insert of the raw fields.
C8_UndecodableDataFallsBack ==
  \A i \in Received :
    (IsPixel(i) /\ Has(reqs[i].req.query, "data")
       /\ ParseData(reqs[i].req.query.data).kind = "throws")
      => /\ AnsweredWithGif(i)
         /\ RawComplete(i) => InsertAttempted(i)
         /\ Saved(i) => RowOf(i).visitor_id = reqs[i].req.query.visitor_id

\* C9: a pixel request without a data parameter whose raw query carries a
\* non-empty visitor_id and timestamp attempts an insert of those fields.
C9_RawQueryWithoutData ==
  \A i \in Received :
    (IsPixel(i) /\ ~Has(reqs[i].req.query, "data") /\ RawComplete(i))
      => /\ InsertAttempted(i)
         /\ Saved(i) => /\ RowOf(i).visitor_id = reqs[i].req.query.visitor_id
                        /\ RowOf(i).timestamp = reqs[i].req.query.timestamp

\* C10: what the iOS endpoint hands to the database, and every row it
\* persisted, has event_type "ios_visit" and the server's time at the
\* request as its timestamp, whatever the query carries.
C10_IosTagAndServerTime ==
  /\ \A i \in Received :
       (IsIos(i) /\ Saved(i))
         => /\ RowOf(i).event_type = "ios_visit"
            /\ RowOf(i).timestamp = Now(reqs[i].at)
  /\ \A op \in pending :
       IsIos(op.rid)
         => /\ op.params.event_type = "ios_visit"
            /\ op.params.timestamp = Now(reqs[op.rid].at)

C10_Witness ==
  \E i \in Received :
    /\ IsIos(i) /\ Saved(i)
    /\ Has(reqs[i].req.query, "timestamp")
    /\ Has(reqs[i].req.query, "event_type")
    /\ reqs[i].req.query.event_type # "ios_visit"

\* the response names all three cache-busting headers
CarriesNoCache(res) == Has(res, "headers") /\ NoCache \subseteq res.headers

\* C11: every response to a pixel or iOS request carries Cache-Control,
\* Pragma and Expires, also the response of the handler's exception path.
C11_BeaconResponsesNoCache ==
  \A i \in Received :
    (IsPixel(i) \/ IsIos(i))
      => \A k \in 1..Len(reqs[i].responses) : CarriesNoCache(reqs[i].responses[k])

\* the user agent request i carries in its body, "" when it carries none
UserAgentOf(i) == StrOr(reqs[i].req.body, "user_agent", "")

\* the device types the server derived for request i: the value bound to a
\* pending INSERT and the value of the row it stored
DeviceTypesOf(i) ==
  {op.params.device_type : op \in {o \in pending : o.rid = i /\ Has(o.params, "device_type")}}
    \cup {visits[k].device_type :
            k \in {n \in 1..Len(visits) : Saved(i) /\ visits[n].id = reqs[i].rowId
                                            /\ Has(visits[n], "device_type")}}

\* the ordered first-match rule, for a given list of desktop tokens
FirstMatch(desktopTokens) ==
  \A i \in Received : \A d \in DeviceTypesOf(i) :
    LET tokens == UATokens(UserAgentOf(i))
        mobile == tokens \cap MobileTokens # {}
        desktop == tokens \cap desktopTokens # {}
        laptop == "Chromebook" \in tokens
    IN  /\ d \in {"Mobile", "Desktop", "Laptop", "Unknown"}
        /\ mobile => d = "Mobile"
        /\ (~mobile /\ desktop) => d = "Desktop"
        /\ (~mobile /\ ~desktop /\ laptop) => d = "Laptop"
        /\ (~mobile /\ ~desktop /\ ~laptop) => d = "Unknown"

\* the same user agent is classified the same way every time
Deterministic ==
  \A i, j \in Received :
    UserAgentOf(i) = UserAgentOf(j)
      => \A d \in DeviceTypesOf(i), e \in DeviceTypesOf(j) : d = e

\* C12 as stated: the device type is one of Mobile, Desktop, Laptop, Unknown,
\* the same for the same user agent, and decided in order: a mobile token
\* gives Mobile; else Macintosh, Windows NT or Linux gives Desktop; else
\* Chromebook gives Laptop; anything else, also no user agent, gives Unknown.
C12_DeviceTypeAsClaimed ==
  FirstMatch({"Macintosh", "Windows NT", "Linux"}) /\ Deterministic

\* C12 amended: as above, with MacIntel among the desktop tokens.
C12_DeviceTypeFirstMatch ==
  FirstMatch({"Macintosh", "MacIntel", "Windows NT", "Linux"}) /\ Deterministic

C12_Witness ==
  \E i, j \in Received :
    /\ UserAgentOf(i) = "Mozilla/5.0 (Linux; Android 14; Pixel 8)"
    /\ Saved(i) /\ Column(RowOf(i), "device_type") = "Mobile"
    /\ UserAgentOf(j) = "MacIntel"
    /\ Saved(j) /\ Column(RowOf(j), "device_type") = "Desktop"

\* the address the handler resolved for request i
ResolvedIp(i) == ClientIp(reqs[i].req)

\* a loopback address, or none
LoopbackOrEmpty(ip) == ip \in {ABSENT, "", "::1"} \/ StartsWithLoopback(ip)

\* the dataset has nothing for the address, or the lookup fails on it
NoGeoData(ip) == LoopbackOrEmpty(ip) \/ GeoLookupThrows(ip) \/ ~GeoLookup(ip).hit

\* C13: where the server enriches visits with a location, a complete POST
\* from a loopback, empty, unknown or failing address does not raise, hands
\* an insert with country and city "Unknown" to the database, and a
\* loopback or empty address is never passed to the lookup.
C13_GeoNeverBlocks ==
  \A i \in Received :
    (variant # "analytics-server.js" /\ IsPost(i) /\ Complete(reqs[i].req.body)
       /\ NoGeoData(ResolvedIp(i)))
      => /\ reqs[i].db # "throws"
         /\ InsertAttempted(i)
         /\ \A op \in pending :
              op.rid = i => (op.params.country = "Unknown" /\ op.params.city = "Unknown")
         /\ Saved(i) => (RowOf(i).country = "Unknown" /\ RowOf(i).city = "Unknown")
         /\ LoopbackOrEmpty(ResolvedIp(i)) => reqs[i].lookups = {}

\* C14: the row persisted for a POST that carries only visitor_id, timestamp
\* and user_agent has url, path and referrer empty, screen_width,
\* screen_height and duration 0, event_type "page_view", and the device type
\* of its user agent (Mobile for an iPhone).
C14_OptionalFieldsDefaulted ==
  \A i \in Received :
    (IsPost(i) /\ Saved(i)
       /\ DOMAIN reqs[i].req.body = {"visitor_id", "timestamp", "user_agent"})
      => LET row == RowOf(i)
             ua == reqs[i].req.body.user_agent
         IN  /\ row.url = "" /\ row.path = "" /\ row.referrer = ""
             /\ row.screen_width = 0 /\ row.screen_height = 0
             /\ row.event_type = "page_view"
             /\ row.duration = 0
             /\ Column(row, "device_type") = detectDeviceType(ua)
             /\ "iPhone" \in UATokens(ua) => Column(row, "device_type") = "Mobile"

\* the answers GET /api/analytics may give when its SELECT runs on `table`:
\* the rows with status 200, or 500 when storage fails
AnalyticsAnswers(table) ==
  {<<[status |-> 200, type |-> "json", rows |-> rows]>> : rows \in SelectVisits(variant, table)}
    \cup {<<JsonError(500, "Failed to fetch analytics data")>>}

\* C15: the Authorization header has no effect on GET /api/analytics: a
\* request is never answered on arrival, whatever its header, and when it is
\* answered the answer is one the table contents at that moment determine
\* (status 200 with the SELECT's rows, or 500 when storage fails).
C15_BearerGateNotEnforced ==
  [][\A i \in 1..Len(reqs') :
       reqs'[i].endpoint = "GET /api/analytics"
         => /\ i > Len(reqs) => (reqs'[i].responses = <<>> /\ reqs'[i].db = "pending")
            /\ (i <= Len(reqs) /\ reqs'[i] # reqs[i])
                 => (reqs[i].responses = <<>> /\ reqs'[i].responses \in AnalyticsAnswers(visits))]_vars

C15_Witness ==
  \E i, j \in Received :
    /\ IsAnalytics(i) /\ IsAnalytics(j)
    /\ reqs[i].req.headers.authorization = ABSENT
    /\ reqs[j].req.headers.authorization = "Bearer your-secret-token"
    /\ reqs[i].db = "read" /\ reqs[j].db = "read"
    /\ reqs[i].responses = reqs[j].responses
    /\ Len(reqs[i].responses[1].rows) = 1

IsHealth(i) == reqs[i].endpoint = "GET /health"

\* the health endpoint answers request i only after a round-trip to the
\* database: "ok" with 200 when it succeeded, "error" with 500 when it failed
AnswersAfterRoundTrip(i) ==
  /\ reqs[i].db \in {"pending", "read", "failed"}
  /\ reqs[i].db = "pending" => reqs[i].responses = <<>>
  /\ reqs[i].db = "read"
       => (Len(reqs[i].responses) = 1 /\ reqs[i].responses[1].health = "ok"
             /\ reqs[i].responses[1].status = 200)
  /\ reqs[i].db = "failed"
       => (Len(reqs[i].responses) = 1 /\ reqs[i].responses[1].health = "error"
             /\ reqs[i].responses[1].status = 500)

\* the health endpoint answers request i "ok" at once, without the database
AnswersAtOnce(i) ==
  /\ reqs[i].db = "none"
  /\ Len(reqs[i].responses) = 1
  /\ reqs[i].responses[1].health = "ok"
  /\ reqs[i].responses[1].status = 200

\* C16 as stated: every health request is answered "ok" only after a
\* successful round-trip to the database, and "error" when the round-trip
\* fails.
C16_HealthReflectsStorage == \A i \in Received : IsHealth(i) => AnswersAfterRoundTrip(i)

\* C16 amended: /health of part_000 answers after a round-trip, "ok" when it
\* succeeded and "error" when it failed; /api/health of analytics-server.js
\* makes no round-trip and answers "ok" at once.
C16_HealthWhereImplemented ==
  \A i \in Received :
    IsHealth(i) => IF variant = "part_000" THEN AnswersAfterRoundTrip(i) ELSE AnswersAtOnce(i)

C16_Witness ==
  \E i, j \in Received :
    /\ IsHealth(i) /\ reqs[i].db = "read" /\ reqs[i].responses[1].health = "ok"
    /\ IsHealth(j) /\ reqs[j].db = "failed" /\ reqs[j].responses[1].health = "error"

\* the ip_address values the server bound or stored for request i
IpAddressesOf(i) ==
  {op.params.ip_address : op \in {o \in pending : o.rid = i /\ o.op = "run"}}
    \cup {visits[k].ip_address :
            k \in {n \in 1..Len(visits) : Saved(i) /\ visits[n].id = reqs[i].rowId}}

\* C17: the address of a request is the first entry of X-Forwarded-For when
\* that is non-empty, otherwise X-Real-IP when present and non-empty,
\* otherwise the peer address of the connection.
C17_ClientIpPriority ==
  \A i \in Received : \A ip \in IpAddressesOf(i) :
    LET h == reqs[i].req.headers
    IN  /\ (h.xff # <<>> /\ h.xff[1] # "") => ip = h.xff[1]
        /\ ((h.xff = <<>> \/ h.xff[1] = "") /\ h.xreal \notin {ABSENT, ""}) => ip = h.xreal
        /\ ((h.xff = <<>> \/ h.xff[1] = "") /\ h.xreal \in {ABSENT, ""})
             => ip = reqs[i].req.remoteAddress

C17_Witness ==
  \E i, j \in Received :
    /\ Saved(i) /\ Saved(j)
    /\ reqs[i].req.headers.xff = <<"", "9.9.9.9">>
    /\ reqs[i].req.headers.xreal = "2.2.2.2"
    /\ RowOf(i).ip_address = "2.2.2.2"
    /\ reqs[j].req.headers.xff = <<"1.1.1.1", " 10.0.0.1">>
    /\ reqs[j].req.headers.xreal = "2.2.2.2"
    /\ RowOf(j).ip_address = "1.1.1.1"

IsTracking(i) == IsPost(i) \/ IsPixel(i) \/ IsIos(i)

\* C18: a tracking request has at most one insert with the database and at
\* most one row; once its insert is settled (or was never issued) no insert
\* is issued for it again, and a request whose insert failed has no row: the
\* table holds one row for each saved request and no other.
C18_NoRetry ==
  [][\A i \in 1..Len(reqs) :
       IsTracking(i)
         => /\ Cardinality({op \in pending' : op.rid = i}) <= 1
            /\ reqs[i].db # "pending"
                 => (reqs'[i].db = reqs[i].db /\ \A op \in pending' : op.rid # i)
            /\ reqs'[i].db = "failed" => reqs'[i].rowId = 0
            /\ Len(visits') = Cardinality({j \in 1..Len(reqs') : reqs'[j].db = "saved"})
            /\ \A j \in 1..Len(reqs') :
                 reqs'[j].db = "saved"
                   => Cardinality({k \in 1..Len(visits') : visits'[k].id = reqs'[j].rowId}) = 1]_vars

C18_Witness ==
  \E i, j \in Received :
    /\ IsPost(i) /\ reqs[i].db = "failed"
    /\ IsPixel(j) /\ reqs[j].db = "failed"
    /\ pending = {}
    /\ Len(visits) = 1

\* the identity the server acknowledged to the saved POST i
AcknowledgedId(i) == reqs[i].responses[1].id

\* the positions of the table that hold the payload of request i under `id`
OwnRows(i, id) ==
  {k \in 1..Len(visits) :
     /\ visits[k].id = id
     /\ visits[k].visitor_id = reqs[i].req.body.visitor_id
     /\ visits[k].timestamp = reqs[i].req.body.timestamp}

\* C19: in whatever order concurrent POSTs and their insert callbacks run,
\* the identity acknowledged to a request is the id of exactly one row, that
\* row holds the request's own payload, and two acknowledged requests never
\* get the same identity.
C19_AcknowledgedOwnRow ==
  /\ \A i \in Received :
       (IsPost(i) /\ Saved(i))
         => /\ Cardinality(RowsWithId(AcknowledgedId(i))) = 1
            /\ OwnRows(i, AcknowledgedId(i)) = RowsWithId(AcknowledgedId(i))
  /\ \A i, j \in Received :
       (i # j /\ IsPost(i) /\ IsPost(j) /\ Saved(i) /\ Saved(j))
         => AcknowledgedId(i) # AcknowledgedId(j)

C19_Witness ==
  \E i, j \in Received :
    /\ i < j
    /\ IsPost(i) /\ IsPost(j) /\ Saved(i) /\ Saved(j)
    /\ reqs[i].req.body # reqs[j].req.body
    /\ AcknowledgedId(i) > AcknowledgedId(j)
    /\ OwnRows(j, AcknowledgedId(j)) # {}

\* the list holds the row of the saved POST i under the identity that was
\* acknowledged, with the values the request brought
ListsRowOf(rows, i) ==
  \E k \in 1..Len(rows) :
    /\ rows[k].id = AcknowledgedId(i)
    /\ rows[k] = RowOf(i)
    /\ rows[k].visitor_id = reqs[i].req.body.visitor_id
    /\ rows[k].timestamp = reqs[i].req.body.timestamp
    /\ rows[k].ip_address = ClientIp(reqs[i].req)

\* C20: while the table holds at most 1000 rows, a list GET /api/analytics
\* returns contains the row of every POST that was acknowledged before its
\* SELECT ran (so of every POST acknowledged before the GET was issued),
\* with the values that were inserted.
C20_AnalyticsSeesAcknowledged ==
  [][\A j \in 1..Len(reqs) :
       (IsAnalytics(j) /\ reqs[j].db = "pending" /\ reqs'[j].db = "read"
          /\ Len(visits) <= AnalyticsLimit)
         => \A i \in 1..Len(reqs) :
              (IsPost(i) /\ Saved(i)) => ListsRowOf(reqs'[j].responses[1].rows, i)]_vars

C20_Witness ==
  \E i, j, a \in Received :
    /\ i < j /\ j < a
    /\ IsPost(i) /\ Saved(i) /\ IsPost(j) /\ Saved(j)
    /\ IsAnalytics(a) /\ reqs[a].db = "read"
    /\ ListsRowOf(reqs[a].responses[1].rows, i)
    /\ ListsRowOf(reqs[a].responses[1].rows, j)

====
